---- MODULE Spec2Model ----
(***************************************************************************)
(* State-machine model of the cricket-stats web application                *)
(* (src/vercel.py): a Flask application whose request handlers load one    *)
(* JSON document, check session flags and passwords, mutate the document   *)
(* in memory and write it back.                                            *)
(*                                                                         *)
(* Strings that the code strips, lower-cases, slices or parses are         *)
(* sequences of one-character strings, so that str.strip, _slugify and     *)
(* _parse_int are computed rather than assumed.  Python dicts are          *)
(* functions whose DOMAIN is the set of keys present; a PlayerStats dict   *)
(* is a sequence of [name, value] entries because its insertion order is   *)
(* observable.                                                             *)
(***************************************************************************)
EXTENDS Integers, Sequences, FiniteSets, TLC

VARIABLES
    store,       \* the document in DATA_PATH (what _load_data returns)
    fileExists,  \* whether DATA_PATH has been created yet
    session,     \* session id -> the Flask session dict of that visitor
    now,         \* datetime.now(timezone.utc), in whole seconds
    resp,        \* the last response: whose request, route, flash, redirect
    history,     \* ghost: league_id -> every deletion logged in that league
    created,     \* ghost: address -> times of its creations without master password
    inflight,    \* request id -> a request served step by step: its copy of the
                 \* document, its position in the handler, its answer
    saves        \* ghost: the requests served step by step, in the order they saved

vars == <<store, fileExists, session, now, resp, history, created, inflight, saves>>

-----------------------------------------------------------------------------
(* Program constants *)

MASTER_ADMIN_PASSWORD == <<"I", "a", "m", "@", "c", "i", "r", "s">>

RateWindow == 3600

SlugMaxLen == 40

LogCap == 67

DefaultSlug == <<"l", "e", "a", "g", "u", "e">>

-----------------------------------------------------------------------------
(* Strings *)

LowerLetters == <<"a", "b", "c", "d", "e", "f", "g", "h", "i", "j", "k", "l", "m",
                  "n", "o", "p", "q", "r", "s", "t", "u", "v", "w", "x", "y", "z">>

UpperLetters == <<"A", "B", "C", "D", "E", "F", "G", "H", "I", "J", "K", "L", "M",
                  "N", "O", "P", "Q", "R", "S", "T", "U", "V", "W", "X", "Y", "Z">>

Digits == <<"0", "1", "2", "3", "4", "5", "6", "7", "8", "9">>

Range(f) == {f[i] : i \in DOMAIN f}

IsSpace(c) == c \in {" ", "\t"}

\* Faulty variant: the slice is one element too long.
Take_one_more(v, n) == IF Len(v) <= n + 1 THEN v ELSE SubSeq(v, 1, n + 1)

\* value[:n]
Take(v, n) == IF Len(v) <= n THEN v ELSE SubSeq(v, 1, n)

\* value[-n:]
LastN(v, n) == IF Len(v) <= n THEN v ELSE SubSeq(v, Len(v) - n + 1, Len(v))

RECURSIVE LStrip(_)
LStrip(v) == IF v # <<>> /\ IsSpace(Head(v)) THEN LStrip(Tail(v)) ELSE v

RECURSIVE RStrip(_)
RStrip(v) ==
    IF v # <<>> /\ IsSpace(v[Len(v)]) THEN RStrip(SubSeq(v, 1, Len(v) - 1)) ELSE v

\* str.strip()
Strip(v) == RStrip(LStrip(v))

LowerChar(c) ==
    IF c \in Range(UpperLetters)
    THEN LowerLetters[CHOOSE i \in DOMAIN UpperLetters : UpperLetters[i] = c]
    ELSE c

\* str.lower()
Lower(v) == [i \in DOMAIN v |-> LowerChar(v[i])]

\* re.sub(r"[^a-z0-9\s-]", "", value)
KeepSlugChars(v) ==
    SelectSeq(v, LAMBDA c : \/ c \in Range(LowerLetters)
                            \/ c \in Range(Digits)
                            \/ IsSpace(c)
                            \/ c = "-")

\* re.sub(r"\s+", "-", value): every maximal run of whitespace becomes one hyphen
RECURSIVE SpacesToHyphen(_)
SpacesToHyphen(v) ==
    IF v = <<>> THEN <<>>
    ELSE IF IsSpace(Head(v)) THEN <<"-">> \o SpacesToHyphen(LStrip(v))
    ELSE <<Head(v)>> \o SpacesToHyphen(Tail(v))

_slugify(value) ==
    LET v1 == Lower(Strip(value))
        v2 == KeepSlugChars(v1)
        v3 == SpacesToHyphen(v2)
    IN  IF Take(v3, SlugMaxLen) = <<>> THEN DefaultSlug ELSE Take(v3, SlugMaxLen)

DigitVal(c) == (CHOOSE i \in DOMAIN Digits : Digits[i] = c) - 1

RECURSIVE DigitsVal(_)
DigitsVal(v) ==
    IF v = <<>> THEN 0
    ELSE IF v[Len(v)] = "_" THEN DigitsVal(SubSeq(v, 1, Len(v) - 1))
    ELSE 10 * DigitsVal(SubSeq(v, 1, Len(v) - 1)) + DigitVal(v[Len(v)])

\* The literals int() accepts: digits, single underscores only between digits.
IsIntBody(v) ==
    /\ v # <<>>
    /\ \A i \in DOMAIN v : v[i] \in Range(Digits) \/ v[i] = "_"
    /\ v[1] # "_"
    /\ v[Len(v)] # "_"
    /\ \A i \in 1..(Len(v) - 1) : ~(v[i] = "_" /\ v[i + 1] = "_")

\* _parse_int: int(value) accepts surrounding whitespace and one sign;
\* a ValueError becomes (False, 0).
_parse_int(value) ==
    LET s == Strip(value)
        signed == s # <<>> /\ Head(s) \in {"+", "-"}
        body == IF signed THEN Tail(s) ELSE s
    IN  IF IsIntBody(body)
        THEN [ok |-> TRUE,
              val |-> IF signed /\ Head(s) = "-" THEN 0 - DigitsVal(body)
                      ELSE DigitsVal(body)]
        ELSE [ok |-> FALSE, val |-> 0]

\* strftime("%Y-%m-%d %H:%M UTC"): the timestamp to the minute
FormatTs(t) == t \div 60

-----------------------------------------------------------------------------
(* Python dicts *)

EmptyDict == [k \in {} |-> TRUE]

DictSet(d, k, v) == (k :> v) @@ d

DictPop(d, k) == [x \in (DOMAIN d) \ {k} |-> d[x]]

\* A PlayerStats dict, in insertion order.
StatsHas(stats, name) == \E i \in DOMAIN stats : stats[i].name = name

StatsIndex(stats, name) == CHOOSE i \in DOMAIN stats : stats[i].name = name

StatsGet(stats, name) == stats[StatsIndex(stats, name)].value

\* stats[name] = value for a new key: appended at the end
StatsInsert(stats, name, value) == Append(stats, [name |-> name, value |-> value])

\* Faulty variant: "=" for "+=".
StatsAddTo_assigns(stats, name, delta) ==
    [stats EXCEPT ![StatsIndex(stats, name)].value = delta]

\* stats[name] += delta: the key keeps its position
StatsAddTo(stats, name, delta) ==
    [stats EXCEPT ![StatsIndex(stats, name)].value = @ + delta]

\* stats.pop(name)
StatsPop(stats, name) == SelectSeq(stats, LAMBDA e : e.name # name)

-----------------------------------------------------------------------------
(* Sessions and the store *)

\* {"leagues": {}}, the document _ensure_data_file writes on first use
EmptyStore == [leagues |-> EmptyDict]

_is_admin(sess) == "is_admin" \in DOMAIN sess /\ sess["is_admin"]

_is_master(sess) == "is_master" \in DOMAIN sess /\ sess["is_master"]

\* Faulty variant: every path of a handler ends in _save_data.
Result_always_saves(data, sess, saved, loaded, kind, flash, redirect) ==
    [data |-> data, session |-> sess, saved |-> TRUE, loaded |-> loaded,
     kind |-> kind, flash |-> flash, redirect |-> redirect]

\* What a handler did: the document it holds when it returns, the session it
\* leaves, whether it called _save_data and _load_data, and its response.
Result(data, sess, saved, loaded, kind, flash, redirect) ==
    [data |-> data, session |-> sess, saved |-> saved, loaded |-> loaded,
     kind |-> kind, flash |-> flash, redirect |-> redirect]

NewLeague(name, password) ==
    [name |-> name, admin_password |-> password,
     orange |-> <<>>, purple |-> <<>>, delete_logs |-> <<>>]

\* MASTER_ADMIN_PASSWORD and password == MASTER_ADMIN_PASSWORD
master_ok(password) ==
    MASTER_ADMIN_PASSWORD # <<>> /\ password = MASTER_ADMIN_PASSWORD

\* Faulty variant: the throttle never refuses.
rate_limited_never(data, ip, t) == FALSE

\* Faulty variant: "<=" for "<", so the window is one second too long.
rate_limited_le(data, ip, t) ==
    /\ ip \in DOMAIN data["rate_limits"]
    /\ data["rate_limits"][ip] # 0
    /\ t - data["rate_limits"][ip] <= RateWindow

\* The throttle of league_create: the address created a league less than
\* RateWindow seconds ago.
rate_limited(data, ip, t) ==
    /\ ip \in DOMAIN data["rate_limits"]
    /\ data["rate_limits"][ip] # 0
    /\ t - data["rate_limits"][ip] < RateWindow

\* Faulty variant: the duplicate check is skipped.
league_exists_never(data, league_id) == FALSE

\* league_id in data.get("leagues", {})
league_exists(data, league_id) == league_id \in DOMAIN data["leagues"]

\* Faulty variant: the throttle is skipped for the master password but the
\* creation is recorded for the address all the same.
league_create_records_master(data, sess, league_name, admin_password, master_password_in, ip, t) ==
    LET name == Strip(league_name)
        password == Strip(admin_password)
        master_password ==
            IF MASTER_ADMIN_PASSWORD = <<>> THEN <<>> ELSE Strip(master_password_in)
    IN
    IF name = <<>> \/ password = <<>>
    THEN Result(data, sess, FALSE, FALSE, "error",
                "Enter a league name and admin password.", "home")
    ELSE IF master_password # <<>> /\ master_password # MASTER_ADMIN_PASSWORD
    THEN Result(data, sess, FALSE, TRUE, "error",
                "Master password is incorrect.", "home")
    ELSE
    LET data1 == IF "rate_limits" \notin DOMAIN data
                 THEN DictSet(data, "rate_limits", EmptyDict)
                 ELSE data
        limited == master_password = <<>> /\ rate_limited(data1, ip, t)
        league_id == _slugify(name)
    IN
    IF limited
    THEN Result(data1, sess, FALSE, TRUE, "error",
                "League creation limited to 1 per hour. Try again later.", "home")
    ELSE IF league_exists(data1, league_id)
    THEN Result(data1, sess, FALSE, TRUE, "error",
                "League already exists. Choose a different name.", "home")
    ELSE
    LET data2 == [data1 EXCEPT !["leagues"] =
                      DictSet(@, league_id, NewLeague(name, password))]
        data3 == [data2 EXCEPT !["rate_limits"] = DictSet(@, ip, t)]
        sess3 == DictSet(DictSet(DictSet(sess, "league_id", league_id),
                                 "is_admin", TRUE),
                         "is_master", master_password # <<>>)
    IN  Result(data3, sess3, TRUE, TRUE, "success",
               "League created. Admin access granted.", "orange")

league_create(data, sess, league_name, admin_password, master_password_in, ip, t) ==
    LET name == Strip(league_name)
        password == Strip(admin_password)
        master_password ==
            IF MASTER_ADMIN_PASSWORD = <<>> THEN <<>> ELSE Strip(master_password_in)
    IN
    IF name = <<>> \/ password = <<>>
    THEN Result(data, sess, FALSE, FALSE, "error",
                "Enter a league name and admin password.", "home")
    ELSE IF master_password # <<>> /\ master_password # MASTER_ADMIN_PASSWORD
    THEN Result(data, sess, FALSE, TRUE, "error",
                "Master password is incorrect.", "home")
    ELSE
    LET data1 == IF master_password = <<>> /\ "rate_limits" \notin DOMAIN data
                 THEN DictSet(data, "rate_limits", EmptyDict)
                 ELSE data
        limited == master_password = <<>> /\ rate_limited(data1, ip, t)
        league_id == _slugify(name)
    IN
    IF limited
    THEN Result(data1, sess, FALSE, TRUE, "error",
                "League creation limited to 1 per hour. Try again later.", "home")
    ELSE IF league_exists(data1, league_id)
    THEN Result(data1, sess, FALSE, TRUE, "error",
                "League already exists. Choose a different name.", "home")
    ELSE
    LET data2 == [data1 EXCEPT !["leagues"] =
                      DictSet(@, league_id, NewLeague(name, password))]
        data3 == IF master_password = <<>>
                 THEN [data2 EXCEPT !["rate_limits"] = DictSet(@, ip, t)]
                 ELSE data2
        sess3 == DictSet(DictSet(DictSet(sess, "league_id", league_id),
                                 "is_admin", TRUE),
                         "is_master", master_password # <<>>)
    IN  Result(data3, sess3, TRUE, TRUE, "success",
               "League created. Admin access granted.", "orange")

\* Faulty variant: the league selected before the password check stays selected.
reject_login_keeps_league(sess) == sess

\* A refused admin login: session.pop("league_id", None)
reject_login(sess) == DictPop(sess, "league_id")

league_login(data, sess, league_id, role, password) ==
    IF league_id \notin DOMAIN data["leagues"]
    THEN Result(data, sess, FALSE, TRUE, "error", "League not found.", "home")
    ELSE
    LET league == data["leagues"][league_id]
        sess1 == DictSet(sess, "league_id", league_id)
        is_master == master_ok(password)
    IN
    IF role = "admin"
    THEN IF password = league.admin_password \/ is_master
         THEN Result(data,
                     DictSet(DictSet(sess1, "is_admin", TRUE), "is_master", is_master),
                     FALSE, TRUE, "success", "Admin access granted.", "orange")
         ELSE Result(data, reject_login(sess1),
                     FALSE, TRUE, "error", "Incorrect Password", "home")
    ELSE Result(data,
                DictSet(DictSet(sess1, "is_admin", FALSE), "is_master", FALSE),
                FALSE, TRUE, "info", "User access granted (view-only).", "orange")

\* Faulty variant: "and is_master" for "and not is_master".
delete_refused_inverted(league, password) ==
    password # league.admin_password /\ master_ok(password)

\* password != league.get("admin_password") and not is_master
delete_refused(league, password) ==
    password # league.admin_password /\ ~master_ok(password)

\* Faulty variant: the session is never cleared.
clear_never(sess, league_id) == sess

\* if session.get("league_id") == league_id: session.clear()
clear_if_selected(sess, league_id) ==
    IF "league_id" \in DOMAIN sess /\ sess["league_id"] = league_id
    THEN EmptyDict
    ELSE sess

league_delete(data, sess, league_id, password) ==
    IF league_id \notin DOMAIN data["leagues"]
    THEN Result(data, sess, FALSE, TRUE, "error", "League not found.", "home")
    ELSE
    LET league == data["leagues"][league_id]
    IN
    IF delete_refused(league, password)
    THEN Result(data, sess, FALSE, TRUE, "error", "Incorrect Password", "home")
    ELSE Result([data EXCEPT !["leagues"] = DictPop(@, league_id)],
                clear_if_selected(sess, league_id),
                TRUE, TRUE, "success", "League deleted.", "home")

logout(data, sess) ==
    Result(data, EmptyDict, FALSE, FALSE, "none", "", "home")

-----------------------------------------------------------------------------
(* Leaderboard mutation handlers *)

\* Faulty variant: the guard lets every session through.
_admin_guard_open(sess) == TRUE

_admin_guard(sess) == _is_admin(sess)

\* _get_league and _require_league: the session names a league and the loaded
\* document still holds it.
_require_league(data, sess) ==
    /\ "league_id" \in DOMAIN sess
    /\ sess["league_id"] # <<>>
    /\ sess["league_id"] \in DOMAIN data["leagues"]

\* Faulty variant: the entry is inserted at the front of the log.
_append_delete_log_front(league, player, category, value, t) ==
    LET logs == <<[player |-> player, category |-> category,
                   value |-> value, ts |-> FormatTs(t)]>> \o league.delete_logs
    IN  [league EXCEPT !.delete_logs =
             IF Len(logs) > LogCap THEN LastN(logs, LogCap) ELSE logs]

\* Faulty variant: [:67] for [-67:], so the newest entry is the one dropped.
_append_delete_log_keeps_oldest(league, player, category, value, t) ==
    LET logs == Append(league.delete_logs,
                       [player |-> player, category |-> category,
                        value |-> value, ts |-> FormatTs(t)])
    IN  [league EXCEPT !.delete_logs =
             IF Len(logs) > LogCap THEN Take(logs, LogCap) ELSE logs]

_append_delete_log(league, player, category, value, t) ==
    LET logs == Append(league.delete_logs,
                       [player |-> player, category |-> category,
                        value |-> value, ts |-> FormatTs(t)])
    IN  [league EXCEPT !.delete_logs =
             IF Len(logs) > LogCap THEN LastN(logs, LogCap) ELSE logs]

\* Faulty variant: an existing player is overwritten with the submitted value.
orange_add_overwrites(data, sess, name_in, value_in) ==
    IF ~_admin_guard(sess)
    THEN Result(data, sess, FALSE, FALSE, "error",
                "Admin access required for this action.", "orange")
    ELSE IF ~_require_league(data, sess)
    THEN Result(data, sess, FALSE, TRUE, "error", "Select a league to continue.", "home")
    ELSE
    LET league_id == sess["league_id"]
        league == data["leagues"][league_id]
        name == Strip(name_in)
        parsed == _parse_int(value_in)
    IN
    IF name = <<>> \/ ~parsed.ok
    THEN Result(data, sess, FALSE, TRUE, "error",
                "Enter a valid player name and numeric runs.", "orange")
    ELSE IF StatsHas(league.orange, name)
    THEN Result([data EXCEPT !["leagues"][league_id].orange =
                     [@ EXCEPT ![StatsIndex(@, name)].value = parsed.val]],
                sess, TRUE, TRUE, "success",
                "Player added to Orange Cap leaderboard.", "orange")
    ELSE Result([data EXCEPT !["leagues"][league_id].orange =
                     StatsInsert(@, name, parsed.val)],
                sess, TRUE, TRUE, "success",
                "Player added to Orange Cap leaderboard.", "orange")

orange_add(data, sess, name_in, value_in) ==
    IF ~_admin_guard(sess)
    THEN Result(data, sess, FALSE, FALSE, "error",
                "Admin access required for this action.", "orange")
    ELSE IF ~_require_league(data, sess)
    THEN Result(data, sess, FALSE, TRUE, "error", "Select a league to continue.", "home")
    ELSE
    LET league_id == sess["league_id"]
        league == data["leagues"][league_id]
        name == Strip(name_in)
        parsed == _parse_int(value_in)
    IN
    IF name = <<>> \/ ~parsed.ok
    THEN Result(data, sess, FALSE, TRUE, "error",
                "Enter a valid player name and numeric runs.", "orange")
    ELSE IF StatsHas(league.orange, name)
    THEN Result(data, sess, FALSE, TRUE, "error",
                "Player already exists. Use edit to adjust runs.", "orange")
    ELSE Result([data EXCEPT !["leagues"][league_id].orange =
                     StatsInsert(@, name, parsed.val)],
                sess, TRUE, TRUE, "success",
                "Player added to Orange Cap leaderboard.", "orange")

orange_edit(data, sess, name_in, delta_in) ==
    IF ~_admin_guard(sess)
    THEN Result(data, sess, FALSE, FALSE, "error",
                "Admin access required for this action.", "orange")
    ELSE IF ~_require_league(data, sess)
    THEN Result(data, sess, FALSE, TRUE, "error", "Select a league to continue.", "home")
    ELSE
    LET league_id == sess["league_id"]
        league == data["leagues"][league_id]
        name == Strip(name_in)
        parsed == _parse_int(delta_in)
    IN
    IF name = <<>> \/ ~parsed.ok
    THEN Result(data, sess, FALSE, TRUE, "error",
                "Enter a valid player name and numeric runs to add.", "orange")
    ELSE IF ~StatsHas(league.orange, name)
    THEN Result(data, sess, FALSE, TRUE, "error",
                "Player not found. Add them first.", "orange")
    ELSE Result([data EXCEPT !["leagues"][league_id].orange =
                     StatsAddTo(@, name, parsed.val)],
                sess, TRUE, TRUE, "success", "Orange Cap stats updated.", "orange")

orange_adjust(data, sess, name_in, delta_in) ==
    IF ~_admin_guard(sess)
    THEN Result(data, sess, FALSE, FALSE, "error",
                "Admin access required for this action.", "orange")
    ELSE IF ~_require_league(data, sess)
    THEN Result(data, sess, FALSE, TRUE, "error", "Select a league to continue.", "home")
    ELSE
    LET league_id == sess["league_id"]
        league == data["leagues"][league_id]
        name == Strip(name_in)
        parsed == _parse_int(delta_in)
    IN
    IF name = <<>> \/ ~parsed.ok
    THEN Result(data, sess, FALSE, TRUE, "error",
                "Enter a valid player name and numeric runs to add.", "orange")
    ELSE IF ~StatsHas(league.orange, name)
    THEN Result(data, sess, FALSE, TRUE, "error",
                "Player not found. Add them first.", "orange")
    ELSE Result([data EXCEPT !["leagues"][league_id].orange =
                     StatsAddTo(@, name, parsed.val)],
                sess, TRUE, TRUE, "success", "Orange Cap stats updated.", "orange")

\* Faulty variant: the handler copied from orange_add still writes the orange
\* leaderboard.
purple_add_into_orange(data, sess, name_in, value_in) ==
    IF ~_admin_guard(sess)
    THEN Result(data, sess, FALSE, FALSE, "error",
                "Admin access required for this action.", "purple")
    ELSE IF ~_require_league(data, sess)
    THEN Result(data, sess, FALSE, TRUE, "error", "Select a league to continue.", "home")
    ELSE
    LET league_id == sess["league_id"]
        league == data["leagues"][league_id]
        name == Strip(name_in)
        parsed == _parse_int(value_in)
    IN
    IF name = <<>> \/ ~parsed.ok
    THEN Result(data, sess, FALSE, TRUE, "error",
                "Enter a valid player name and numeric wickets.", "purple")
    ELSE IF StatsHas(league.purple, name)
    THEN Result(data, sess, FALSE, TRUE, "error",
                "Player already exists. Use edit to adjust wickets.", "purple")
    ELSE Result([data EXCEPT !["leagues"][league_id].orange =
                     StatsInsert(@, name, parsed.val)],
                sess, TRUE, TRUE, "success",
                "Player added to Purple Cap leaderboard.", "purple")

purple_add(data, sess, name_in, value_in) ==
    IF ~_admin_guard(sess)
    THEN Result(data, sess, FALSE, FALSE, "error",
                "Admin access required for this action.", "purple")
    ELSE IF ~_require_league(data, sess)
    THEN Result(data, sess, FALSE, TRUE, "error", "Select a league to continue.", "home")
    ELSE
    LET league_id == sess["league_id"]
        league == data["leagues"][league_id]
        name == Strip(name_in)
        parsed == _parse_int(value_in)
    IN
    IF name = <<>> \/ ~parsed.ok
    THEN Result(data, sess, FALSE, TRUE, "error",
                "Enter a valid player name and numeric wickets.", "purple")
    ELSE IF StatsHas(league.purple, name)
    THEN Result(data, sess, FALSE, TRUE, "error",
                "Player already exists. Use edit to adjust wickets.", "purple")
    ELSE Result([data EXCEPT !["leagues"][league_id].purple =
                     StatsInsert(@, name, parsed.val)],
                sess, TRUE, TRUE, "success",
                "Player added to Purple Cap leaderboard.", "purple")

purple_edit(data, sess, name_in, delta_in) ==
    IF ~_admin_guard(sess)
    THEN Result(data, sess, FALSE, FALSE, "error",
                "Admin access required for this action.", "purple")
    ELSE IF ~_require_league(data, sess)
    THEN Result(data, sess, FALSE, TRUE, "error", "Select a league to continue.", "home")
    ELSE
    LET league_id == sess["league_id"]
        league == data["leagues"][league_id]
        name == Strip(name_in)
        parsed == _parse_int(delta_in)
    IN
    IF name = <<>> \/ ~parsed.ok
    THEN Result(data, sess, FALSE, TRUE, "error",
                "Enter a valid player name and numeric wickets to add.", "purple")
    ELSE IF ~StatsHas(league.purple, name)
    THEN Result(data, sess, FALSE, TRUE, "error",
                "Player not found. Add them first.", "purple")
    ELSE Result([data EXCEPT !["leagues"][league_id].purple =
                     StatsAddTo(@, name, parsed.val)],
                sess, TRUE, TRUE, "success", "Purple Cap stats updated.", "purple")

purple_adjust(data, sess, name_in, delta_in) ==
    IF ~_admin_guard(sess)
    THEN Result(data, sess, FALSE, FALSE, "error",
                "Admin access required for this action.", "purple")
    ELSE IF ~_require_league(data, sess)
    THEN Result(data, sess, FALSE, TRUE, "error", "Select a league to continue.", "home")
    ELSE
    LET league_id == sess["league_id"]
        league == data["leagues"][league_id]
        name == Strip(name_in)
        parsed == _parse_int(delta_in)
    IN
    IF name = <<>> \/ ~parsed.ok
    THEN Result(data, sess, FALSE, TRUE, "error",
                "Enter a valid player name and numeric wickets to add.", "purple")
    ELSE IF ~StatsHas(league.purple, name)
    THEN Result(data, sess, FALSE, TRUE, "error",
                "Player not found. Add them first.", "purple")
    ELSE Result([data EXCEPT !["leagues"][league_id].purple =
                     StatsAddTo(@, name, parsed.val)],
                sess, TRUE, TRUE, "success", "Purple Cap stats updated.", "purple")

orange_delete(data, sess, name_in, t) ==
    IF ~_admin_guard(sess)
    THEN Result(data, sess, FALSE, FALSE, "error",
                "Admin access required for this action.", "orange")
    ELSE IF ~_require_league(data, sess)
    THEN Result(data, sess, FALSE, TRUE, "error", "Select a league to continue.", "home")
    ELSE
    LET league_id == sess["league_id"]
        league == data["leagues"][league_id]
        name == Strip(name_in)
    IN
    IF name = <<>> \/ ~StatsHas(league.orange, name)
    THEN Result(data, sess, FALSE, TRUE, "error", "Player not found.", "orange")
    ELSE
    LET value == StatsGet(league.orange, name)
        league1 == [league EXCEPT !.orange = StatsPop(@, name)]
        league2 == _append_delete_log(league1, name, "Orange Cap", value, t)
    IN  Result([data EXCEPT !["leagues"][league_id] = league2],
               sess, TRUE, TRUE, "success",
               "Player deleted from Orange Cap leaderboard.", "orange")

purple_delete(data, sess, name_in, t) ==
    IF ~_admin_guard(sess)
    THEN Result(data, sess, FALSE, FALSE, "error",
                "Admin access required for this action.", "purple")
    ELSE IF ~_require_league(data, sess)
    THEN Result(data, sess, FALSE, TRUE, "error", "Select a league to continue.", "home")
    ELSE
    LET league_id == sess["league_id"]
        league == data["leagues"][league_id]
        name == Strip(name_in)
    IN
    IF name = <<>> \/ ~StatsHas(league.purple, name)
    THEN Result(data, sess, FALSE, TRUE, "error", "Player not found.", "purple")
    ELSE
    LET value == StatsGet(league.purple, name)
        league1 == [league EXCEPT !.purple = StatsPop(@, name)]
        league2 == _append_delete_log(league1, name, "Purple Cap", value, t)
    IN  Result([data EXCEPT !["leagues"][league_id] = league2],
               sess, TRUE, TRUE, "success",
               "Player deleted from Purple Cap leaderboard.", "purple")

-----------------------------------------------------------------------------
(* Leaderboard views *)

\* Faulty variant: an entry goes in front of the entries of equal value.
InsertByValue_before_ties(board, e) ==
    LET k == Cardinality({i \in DOMAIN board : board[i].value > e.value})
    IN  SubSeq(board, 1, k) \o <<e>> \o SubSeq(board, k + 1, Len(board))

\* One step of the stable descending sort: e goes behind every entry whose
\* value is at least its own.
InsertByValue(board, e) ==
    LET k == Cardinality({i \in DOMAIN board : board[i].value >= e.value})
    IN  SubSeq(board, 1, k) \o <<e>> \o SubSeq(board, k + 1, Len(board))

\* sorted(items, key=lambda item: item[1], reverse=True): sorted is stable and
\* reverse=True keeps the order of entries with equal keys.
RECURSIVE sorted_reverse(_)
sorted_reverse(items) ==
    IF items = <<>> THEN <<>>
    ELSE InsertByValue(sorted_reverse(SubSeq(items, 1, Len(items) - 1)),
                       items[Len(items)])

\* render_template("leaderboard.html", ...): the page and what it shows
Page(data, sess, leaderboard, league) ==
    [data |-> data, session |-> sess, saved |-> FALSE, loaded |-> TRUE,
     kind |-> "page", flash |-> "", redirect |-> "",
     leaderboard |-> leaderboard, is_admin |-> _is_admin(sess),
     league_name |-> league.name, delete_logs |-> league.delete_logs]

orange(data, sess) ==
    IF ~_require_league(data, sess)
    THEN Result(data, sess, FALSE, TRUE, "error", "Select a league to continue.", "home")
    ELSE LET league == data["leagues"][sess["league_id"]]
         IN  Page(data, sess, sorted_reverse(league.orange), league)

purple(data, sess) ==
    IF ~_require_league(data, sess)
    THEN Result(data, sess, FALSE, TRUE, "error", "Select a league to continue.", "home")
    ELSE LET league == data["leagues"][sess["league_id"]]
         IN  Page(data, sess, sorted_reverse(league.purple), league)

-----------------------------------------------------------------------------
(* Requests: each handler runs to completion, one request at a time *)

\* Before the first request there is no response.
NoResponse == [sid |-> 0, route |-> "", kind |-> "none", flash |-> "", redirect |-> ""]

\* _load_data: _ensure_data_file creates the document on first use
_load_data == IF fileExists THEN store ELSE EmptyStore

\* The handler's result r becomes the next state: _save_data overwrites the
\* document, the session cookie is replaced, the flash and redirect are sent.
ServeRequest(s, route, r, hist) ==
    /\ store' = IF r.saved THEN r.data ELSE _load_data
    /\ fileExists' = (fileExists \/ r.loaded \/ r.saved)
    /\ session' = [session EXCEPT ![s] = r.session]
    /\ resp' = [sid |-> s, route |-> route, kind |-> r.kind, flash |-> r.flash,
                redirect |-> r.redirect]
    /\ history' = hist
    /\ UNCHANGED <<now, inflight, saves>>

\* A request that creates no league without master password.
Serve(s, route, r, hist) ==
    /\ ServeRequest(s, route, r, hist)
    /\ UNCHANGED created

POST_league_create(s, league_name, admin_password, master_password, ip) ==
    LET r == league_create(_load_data, session[s], league_name, admin_password,
                           master_password, ip, now)
    IN  /\ ServeRequest(s, "league_create", r,
                         IF r.saved
                         THEN DictSet(history, r.session["league_id"], <<>>)
                         ELSE history)
        /\ created' = IF r.saved /\ Strip(master_password) = <<>>
                      THEN DictSet(created, ip,
                                   Append(IF ip \in DOMAIN created
                                          THEN created[ip] ELSE <<>>, now))
                      ELSE created

POST_league_login(s, league_id, role, password) ==
    Serve(s, "league_login",
          league_login(_load_data, session[s], league_id, role, password), history)

POST_league_delete(s, league_id, password) ==
    LET r == league_delete(_load_data, session[s], league_id, password)
    IN  Serve(s, "league_delete", r,
              IF r.saved THEN DictPop(history, league_id) ELSE history)

POST_logout(s) == Serve(s, "logout", logout(_load_data, session[s]), history)

POST_orange_add(s, name, value) ==
    Serve(s, "orange_add", orange_add(_load_data, session[s], name, value), history)

POST_orange_edit(s, name, delta) ==
    Serve(s, "orange_edit", orange_edit(_load_data, session[s], name, delta), history)

POST_orange_adjust(s, name, delta) ==
    Serve(s, "orange_adjust", orange_adjust(_load_data, session[s], name, delta), history)

POST_purple_add(s, name, value) ==
    Serve(s, "purple_add", purple_add(_load_data, session[s], name, value), history)

POST_purple_edit(s, name, delta) ==
    Serve(s, "purple_edit", purple_edit(_load_data, session[s], name, delta), history)

POST_purple_adjust(s, name, delta) ==
    Serve(s, "purple_adjust", purple_adjust(_load_data, session[s], name, delta), history)

\* The ghost history records the deletion from the state before the request.
Deleted(s, name, category, stats) ==
    LET lid == session[s]["league_id"]
    IN  [history EXCEPT ![lid] =
             Append(@, [player |-> Strip(name), category |-> category,
                        value |-> StatsGet(stats, Strip(name)),
                        ts |-> FormatTs(now)])]

POST_orange_delete(s, name) ==
    LET r == orange_delete(_load_data, session[s], name, now)
    IN  Serve(s, "orange_delete", r, IF r.saved
                    THEN Deleted(s, name, "Orange Cap",
                                 store["leagues"][session[s]["league_id"]].orange)
                    ELSE history)

POST_purple_delete(s, name) ==
    LET r == purple_delete(_load_data, session[s], name, now)
    IN  Serve(s, "purple_delete", r, IF r.saved
                    THEN Deleted(s, name, "Purple Cap",
                                 store["leagues"][session[s]["league_id"]].purple)
                    ELSE history)

GET_orange(s) == Serve(s, "orange", orange(_load_data, session[s]), history)

GET_purple(s) == Serve(s, "purple", purple(_load_data, session[s]), history)

\* Time passes between requests.
Tick(d) ==
    /\ now' = now + d
    /\ UNCHANGED <<store, fileExists, session, resp, history, created, inflight, saves>>

-----------------------------------------------------------------------------
(* Requests served step by step: the server holds no lock between a handler's
   _load_data and its _save_data, so the steps of two requests interleave *)

\* The answer of a request that has not run its handler yet.
NoResult == Result(EmptyStore, EmptyDict, FALSE, FALSE, "none", "", "")

\* The handler of the route on the submitted form.
Handle(route, form, data, sess, ip, t) ==
    CASE route = "league_create" ->
             league_create(data, sess, form[1], form[2], form[3], ip, t)
      [] route = "league_delete" -> league_delete(data, sess, form[1], form[2])
      [] route = "orange_add" -> orange_add(data, sess, form[1], form[2])
      [] route = "orange_edit" -> orange_edit(data, sess, form[1], form[2])
      [] route = "orange_delete" -> orange_delete(data, sess, form[1], t)
      [] route = "purple_add" -> purple_add(data, sess, form[1], form[2])

\* Faulty variant: the handler works on the document as it is when it mutates,
\* as if load, mutation and save were one locked section.
request_data_fresh(q) == _load_data

\* The handler's local variable data: the document it loaded.
request_data(q) == inflight[q].data

\* The request of visitor q arrives and its handler reads the document.
Load(q, route, form, ip) ==
    /\ q \notin DOMAIN inflight
    /\ inflight' = DictSet(inflight, q,
                           [pc |-> "loaded", sid |-> q, route |-> route,
                            form |-> form, ip |-> ip, sess |-> session[q],
                            data |-> _load_data, seen |-> Len(saves),
                            result |-> NoResult])
    /\ store' = _load_data
    /\ fileExists' = (fileExists
                      \/ Handle(route, form, _load_data, session[q], ip, now).loaded)
    /\ UNCHANGED <<session, now, resp, history, created, saves>>

\* The handler checks the form and changes its copy of the document.
Mutate(q) ==
    /\ q \in DOMAIN inflight
    /\ inflight[q].pc = "loaded"
    /\ inflight' = [inflight EXCEPT
                        ![q].pc = "mutated",
                        ![q].result = Handle(inflight[q].route, inflight[q].form,
                                             request_data(q), inflight[q].sess,
                                             inflight[q].ip, now)]
    /\ UNCHANGED <<store, fileExists, session, now, resp, history, created, saves>>

\* The handler writes its copy over the document, if it got that far, and
\* answers.
Save(q) ==
    /\ q \in DOMAIN inflight
    /\ inflight[q].pc = "mutated"
    /\ LET r == inflight[q].result
       IN  /\ store' = IF r.saved THEN r.data ELSE store
           /\ fileExists' = (fileExists \/ r.saved)
           /\ saves' = IF r.saved THEN Append(saves, q) ELSE saves
           /\ session' = [session EXCEPT ![inflight[q].sid] = r.session]
           /\ resp' = [sid |-> inflight[q].sid, route |-> inflight[q].route,
                       kind |-> r.kind, flash |-> r.flash, redirect |-> r.redirect]
           /\ created' = IF /\ r.saved
                            /\ inflight[q].route = "league_create"
                            /\ Strip(inflight[q].form[3]) = <<>>
                         THEN DictSet(created, inflight[q].ip,
                                      Append(IF inflight[q].ip \in DOMAIN created
                                             THEN created[inflight[q].ip]
                                             ELSE <<>>, now))
                         ELSE created
    /\ inflight' = [inflight EXCEPT ![q].pc = "done"]
    /\ UNCHANGED <<now, history>>

-----------------------------------------------------------------------------
(* Bounds and inputs *)

\* The clock reading at the first request (seconds since the epoch).
StartTime == 1700000000

\* The clock runs for this many rate-limit windows.
MaxHours == 1

Sessions == {1, 2}

ClientIPs == {"10.0.0.1", "10.0.0.2"}

Roles == {"admin", "user"}

\* League names: blank, two that slugify to "a", one that slugifies to "league".
LeagueNames == {<<" ">>, <<"A">>, <<"a", " ">>, <<"!">>}

LeagueIds == {<<"a">>, DefaultSlug}

\* Passwords at creation: blank, "p " (stored as "p") and "q".
NewPasswords == {<<" ">>, <<"p", " ">>, <<"q">>}

MasterInputs == {<<>>, <<"m">>, MASTER_ADMIN_PASSWORD}

\* Passwords at login and deletion; these forms are not stripped.
LoginPasswords == {<<"p", " ">>, <<"p">>, <<"q">>, MASTER_ADMIN_PASSWORD}

\* Stored metrics stay within -MaxVal..MaxVal.
MaxVal == 1

\* Player names: blank, "x", and "y " (stored as "y").
PlayerNames == {<<" ">>, <<"x">>, <<"y", " ">>}

\* Values of add: not a number, "1", "-1".
AddValues == {<<>>, <<"1">>, <<"-", "1">>}

\* Deltas of edit and adjust: not a number, "+1", " -2".
Deltas == {<<"1", "x">>, <<"+", "1">>, <<" ", "-", "2">>}

Abs(n) == IF n < 0 THEN 0 - n ELSE n

ValuesWithin ==
    \A l \in DOMAIN store["leagues"] :
        /\ \A i \in DOMAIN store["leagues"][l].orange :
               Abs(store["leagues"][l].orange[i].value) <= MaxVal
        /\ \A i \in DOMAIN store["leagues"][l].purple :
               Abs(store["leagues"][l].purple[i].value) <= MaxVal

\* No league has logged a second deletion: long delete logs are the subject of
\* SpecLog.
AtMostOneDeletion ==
    \A l \in DOMAIN store["leagues"] : Len(store["leagues"][l].delete_logs) <= 1

\* Player names of the purple leaderboard: blank and "x".
PurpleNames == {<<" ">>, <<"x">>}

\* SpecLog runs this many deletions from its initial log.
MaxDeletes == 2

\* SpecLog starts from a league whose delete log holds none or one short of
\* LogCap entries: player "x" was added with value i and deleted, i = 1, 2, ...
PrefillLengths == {0, LogCap - 1}

Prefill(k) ==
    [i \in 1..k |-> [player |-> <<"x">>, category |-> "Orange Cap",
                     value |-> i, ts |-> FormatTs(StartTime)]]

LogValues == {<<"1">>, <<"-", "1">>}

LogNames == {<<" ">>, <<"x">>, <<"y", " ">>}

DeletesWithin ==
    \A l \in DOMAIN history :
        \E k \in PrefillLengths : k <= Len(history[l]) /\ Len(history[l]) <= k + MaxDeletes

\* The clock advances in steps that reach one second short of the window and
\* the window exactly.
ClockSteps == {RateWindow \div 2 - 1, RateWindow \div 2}

ClockRuns(d) == now + d <= StartTime + MaxHours * RateWindow

RateNames == {<<"a">>, <<"b">>}

RateIds == {<<"a">>, <<"b">>}

RatePasswords == {<<" ">>, <<"p">>}

\* No master password, in two spellings, and the master password.
RateMasters == {<<>>, <<" ">>, MASTER_ADMIN_PASSWORD}

-----------------------------------------------------------------------------
(* League lifecycle and sessions: two visitors, one client address *)

Init ==
    /\ store = EmptyStore
    /\ fileExists = FALSE
    /\ session = [s \in Sessions |-> EmptyDict]
    /\ now = StartTime
    /\ resp = NoResponse
    /\ history = EmptyDict
    /\ created = EmptyDict
    /\ inflight = EmptyDict
    /\ saves = <<>>

Next ==
    \/ \E s \in Sessions, n \in LeagueNames, p \in NewPasswords, m \in MasterInputs :
           POST_league_create(s, n, p, m, "10.0.0.1")
    \/ \E s \in Sessions, l \in LeagueIds, role \in Roles, p \in LoginPasswords :
           POST_league_login(s, l, role, p)
    \/ \E s \in Sessions, l \in LeagueIds, p \in LoginPasswords :
           POST_league_delete(s, l, p)
    \/ \E s \in Sessions : POST_logout(s)

Spec == Init /\ [][Next]_vars

-----------------------------------------------------------------------------
(* The creation throttle: one visitor, two client addresses, a running clock *)

NextRate ==
    \/ \E n \in RateNames, p \in RatePasswords, m \in RateMasters, ip \in ClientIPs :
           POST_league_create(1, n, p, m, ip)
    \/ \E l \in RateIds : POST_league_delete(1, l, <<"p">>)
    \/ \E d \in ClockSteps : ClockRuns(d) /\ Tick(d)

SpecRate == Init /\ [][NextRate]_vars

-----------------------------------------------------------------------------
(* The leaderboards of one league: one visitor creates the league and, as its
   admin, mutates both categories *)

NextStats ==
    \/ POST_league_create(1, <<"a">>, <<"p">>, <<>>, "10.0.0.1")
    \/ POST_league_login(1, <<"a">>, "admin", <<"p">>)
    \/ \E n \in PlayerNames, v \in AddValues : POST_orange_add(1, n, v)
    \/ \E n \in PlayerNames, d \in Deltas : POST_orange_edit(1, n, d) /\ ValuesWithin'
    \/ \E n \in PlayerNames, d \in Deltas : POST_orange_adjust(1, n, d) /\ ValuesWithin'
    \/ \E n \in PlayerNames : POST_orange_delete(1, n) /\ AtMostOneDeletion'
    \/ \E n \in PurpleNames, v \in AddValues : POST_purple_add(1, n, v)
    \/ \E n \in PurpleNames, d \in Deltas : POST_purple_edit(1, n, d) /\ ValuesWithin'
    \/ \E n \in PurpleNames, d \in Deltas : POST_purple_adjust(1, n, d) /\ ValuesWithin'
    \/ \E n \in PurpleNames : POST_purple_delete(1, n) /\ AtMostOneDeletion'

SpecStats == Init /\ [][NextStats]_vars

-----------------------------------------------------------------------------
(* The admin guard: visitor 1 creates a league and mutates one player of each
   category; visitor 2 logs in as viewer or admin, logs out, deletes the league
   and tries every mutation *)

GuardNames == {<<"x">>}

GuardValues == {<<"1">>}

GuardDeltas == {<<" ", "-", "2">>, <<"+", "1">>}

NextGuard ==
    \/ POST_league_create(1, <<"a">>, <<"p">>, <<>>, "10.0.0.1")
    \/ \E role \in Roles, p \in {<<"p">>, <<"q">>} :
           POST_league_login(2, <<"a">>, role, p)
    \/ POST_league_delete(2, <<"a">>, <<"p">>)
    \/ POST_logout(2)
    \/ \E s \in Sessions, n \in GuardNames, v \in GuardValues : POST_orange_add(s, n, v)
    \/ \E s \in Sessions, n \in GuardNames, d \in GuardDeltas :
           POST_orange_edit(s, n, d) /\ ValuesWithin'
    \/ \E s \in Sessions, n \in GuardNames, d \in GuardDeltas :
           POST_orange_adjust(s, n, d) /\ ValuesWithin'
    \/ \E s \in Sessions, n \in GuardNames : POST_orange_delete(s, n) /\ AtMostOneDeletion'
    \/ \E s \in Sessions, n \in GuardNames, v \in GuardValues : POST_purple_add(s, n, v)
    \/ \E s \in Sessions, n \in GuardNames, d \in GuardDeltas :
           POST_purple_edit(s, n, d) /\ ValuesWithin'
    \/ \E s \in Sessions, n \in GuardNames, d \in GuardDeltas :
           POST_purple_adjust(s, n, d) /\ ValuesWithin'
    \/ \E s \in Sessions, n \in GuardNames : POST_purple_delete(s, n) /\ AtMostOneDeletion'

SpecGuard == Init /\ [][NextGuard]_vars

-----------------------------------------------------------------------------
(* The delete log: the admin of one league adds and deletes players of both
   categories, from an empty log and from a log one entry short of LogCap *)

InitLog ==
    \E k \in PrefillLengths :
        /\ store = [leagues |-> (<<"a">> :> [NewLeague(<<"a">>, <<"p">>)
                                               EXCEPT !.delete_logs = Prefill(k)]),
                    rate_limits |-> ("10.0.0.1" :> StartTime)]
        /\ fileExists = TRUE
        /\ session = [s \in Sessions |->
                         IF s = 1
                         THEN [league_id |-> <<"a">>, is_admin |-> TRUE,
                               is_master |-> FALSE]
                         ELSE EmptyDict]
        /\ now = StartTime
        /\ resp = IF k = 0
                  THEN [sid |-> 1, route |-> "league_create", kind |-> "success",
                        flash |-> "League created. Admin access granted.",
                        redirect |-> "orange"]
                  ELSE [sid |-> 1, route |-> "orange_delete", kind |-> "success",
                        flash |-> "Player deleted from Orange Cap leaderboard.",
                        redirect |-> "orange"]
        /\ history = (<<"a">> :> Prefill(k))
        /\ created = ("10.0.0.1" :> <<StartTime>>)
        /\ inflight = EmptyDict
        /\ saves = <<>>

NextLog ==
    \/ \E n \in LogNames, v \in LogValues : POST_orange_add(1, n, v)
    \/ \E v \in LogValues : POST_purple_add(1, <<"x">>, v)
    \/ \E n \in LogNames : POST_orange_delete(1, n) /\ DeletesWithin'
    \/ \E n \in LogNames : POST_purple_delete(1, n) /\ DeletesWithin'

SpecLog == InitLog /\ [][NextLog]_vars

-----------------------------------------------------------------------------
(* The leaderboard views: visitor 1 creates the league and, as its admin, adds,
   edits and deletes players; visitor 2 looks on as a viewer *)

ViewNames == {<<"x">>, <<"y">>}

ViewDeltas == {<<"+", "1">>, <<" ", "-", "2">>}

NextView ==
    \/ POST_league_create(1, <<"a">>, <<"p">>, <<>>, "10.0.0.1")
    \/ POST_league_login(2, <<"a">>, "user", <<>>)
    \/ \E n \in ViewNames, v \in LogValues : POST_orange_add(1, n, v)
    \/ \E n \in ViewNames, d \in ViewDeltas : POST_orange_edit(1, n, d) /\ ValuesWithin'
    \/ \E n \in ViewNames : POST_orange_delete(1, n) /\ AtMostOneDeletion'
    \/ \E n \in ViewNames : POST_purple_add(1, n, <<"1">>)
    \/ \E s \in Sessions : GET_orange(s)
    \/ \E s \in Sessions : GET_purple(s)

SpecView == Init /\ [][NextView]_vars

-----------------------------------------------------------------------------
(* League ids: one visitor creates leagues under many names, one league at a
   time, each deleted before the next is created *)

\* A lower-case and an upper-case letter, a digit, a space, a hyphen and a
\* punctuation mark.
SlugAlphabet == {"a", "B", "7", " ", "-", "!"}

\* Names end in at most this many characters of the alphabet.
SlugTailLen == 3

SlugTails == UNION {[1..k -> SlugAlphabet] : k \in 0..SlugTailLen}

Fill(k) == [i \in 1..k |-> "a"]

\* Short names, and names that reach or pass SlugMaxLen characters.
SlugNames == {Fill(k) \o t : k \in {0, SlugMaxLen - 2}, t \in SlugTails}

NextSlug ==
    \/ \E n \in SlugNames :
           /\ store["leagues"] = EmptyDict
           /\ POST_league_create(1, n, <<"p">>, MASTER_ADMIN_PASSWORD, "10.0.0.1")
    \/ \E l \in DOMAIN store["leagues"] :
           POST_league_delete(1, l, MASTER_ADMIN_PASSWORD)

SpecSlug == Init /\ [][NextSlug]_vars

-----------------------------------------------------------------------------
(* Failing requests: visitor 1 creates league "a" and mutates its orange
   leaderboard; visitor 2 logs in, deletes the league and tries the same
   mutations; each form is also sent blank, malformed or with a wrong password *)

FailNames == {<<" ">>, <<"a">>}

FailMasters == {<<>>, <<"m">>, MASTER_ADMIN_PASSWORD}

FailIds == {<<"a">>, <<"b">>}

FailPasswords == {<<"p">>, <<"q">>}

FailPlayers == {<<" ">>, <<"x">>}

FailValues == {<<>>, <<"-", "1">>}

FailDeltas == {<<"1", "x">>, <<"+", "1">>}

NextFail ==
    \/ \E n \in FailNames, m \in FailMasters :
           POST_league_create(1, n, <<"p">>, m, "10.0.0.1")
    \/ \E l \in FailIds, role \in Roles, p \in FailPasswords :
           POST_league_login(2, l, role, p)
    \/ \E p \in FailPasswords : POST_league_delete(2, <<"a">>, p)
    \/ \E s \in Sessions, n \in FailPlayers, v \in FailValues : POST_orange_add(s, n, v)
    \/ \E s \in Sessions, n \in FailPlayers, d \in FailDeltas :
           POST_orange_edit(s, n, d) /\ ValuesWithin'
    \/ \E s \in Sessions, n \in FailPlayers :
           POST_orange_delete(s, n) /\ AtMostOneDeletion'

SpecFail == Init /\ [][NextFail]_vars

-----------------------------------------------------------------------------
(* Two leagues side by side: visitor 1 creates league "a", visitor 2 league "b"
   from another address, and each mutates both categories of their league *)

FrameNames == {<<"x">>}

FrameValues == {<<"1">>}

FrameDeltas == {<<" ", "-", "2">>}

NextFrame ==
    \/ POST_league_create(1, <<"a">>, <<"p">>, <<>>, "10.0.0.1")
    \/ POST_league_create(2, <<"b">>, <<"q">>, <<>>, "10.0.0.2")
    \/ \E s \in Sessions, n \in FrameNames, v \in FrameValues : POST_orange_add(s, n, v)
    \/ \E s \in Sessions, n \in FrameNames, d \in FrameDeltas :
           POST_orange_edit(s, n, d) /\ ValuesWithin'
    \/ \E s \in Sessions, n \in FrameNames, d \in FrameDeltas :
           POST_orange_adjust(s, n, d) /\ ValuesWithin'
    \/ \E s \in Sessions, n \in FrameNames : POST_orange_delete(s, n) /\ AtMostOneDeletion'
    \/ \E s \in Sessions, n \in FrameNames, v \in FrameValues : POST_purple_add(s, n, v)
    \/ \E s \in Sessions, n \in FrameNames, d \in FrameDeltas :
           POST_purple_edit(s, n, d) /\ ValuesWithin'
    \/ \E s \in Sessions, n \in FrameNames, d \in FrameDeltas :
           POST_purple_adjust(s, n, d) /\ ValuesWithin'
    \/ \E s \in Sessions, n \in FrameNames : POST_purple_delete(s, n) /\ AtMostOneDeletion'

SpecFrame == Init /\ [][NextFrame]_vars

-----------------------------------------------------------------------------
(* Overlapping requests: league "a" is set up by requests served one at a time
   (visitor 1 creates it and adds player x, visitor 2 logs in as admin); then
   each visitor sends one request, and the two are served step by step *)

NoneInFlight == inflight = EmptyDict

\* What the two visitors send: mutations of league "a", creations without
\* master password from the other address, and the deletion of league "a".
RaceRequests ==
    {[route |-> "orange_add", form |-> <<<<"y">>, <<"1">>>>, ip |-> "10.0.0.1"],
     [route |-> "orange_edit", form |-> <<<<"x">>, <<"+", "1">>>>, ip |-> "10.0.0.1"],
     [route |-> "orange_delete", form |-> <<<<"x">>>>, ip |-> "10.0.0.1"],
     [route |-> "purple_add", form |-> <<<<"x">>, <<"1">>>>, ip |-> "10.0.0.1"],
     [route |-> "league_create", form |-> <<<<"b">>, <<"q">>, <<>>>>, ip |-> "10.0.0.2"],
     [route |-> "league_create", form |-> <<<<"c">>, <<"q">>, <<>>>>, ip |-> "10.0.0.2"],
     [route |-> "league_delete", form |-> <<<<"a">>, <<"p">>>>, ip |-> "10.0.0.1"]}

NextRace ==
    \/ NoneInFlight /\ POST_league_create(1, <<"a">>, <<"p">>, <<>>, "10.0.0.1")
    \/ NoneInFlight /\ POST_league_login(2, <<"a">>, "admin", <<"p">>)
    \/ NoneInFlight /\ POST_orange_add(1, <<"x">>, <<"-", "1">>)
    \/ \E q \in Sessions, r \in RaceRequests : Load(q, r.route, r.form, r.ip)
    \/ \E q \in Sessions : Mutate(q)
    \/ \E q \in Sessions : Save(q)

SpecRace == Init /\ [][NextRace]_vars

-----------------------------------------------------------------------------
(* Properties of the league lifecycle *)

Leagues == store["leagues"]

Selected(s) ==
    IF "league_id" \in DOMAIN session[s] THEN {session[s]["league_id"]} ELSE {}

SelectedIn(sess) ==
    IF "league_id" \in DOMAIN sess THEN {sess["league_id"]} ELSE {}

\* The step is a request (not the passing of time) on the given route.
Served(route) == resp'.route = route /\ now' = now

\* C2: an admin login on an existing league with the league's stored admin
\* password leaves the session on that league with is_admin true; an admin login
\* with a password that is neither the league's nor the master password redirects
\* to home and leaves the session with no league_id.
C2_AdminLogin ==
    \A s \in Sessions, l \in DOMAIN Leagues, p \in LoginPasswords :
        LET r == league_login(_load_data, session[s], l, "admin", p)
        IN  /\ p = Leagues[l].admin_password =>
                   /\ SelectedIn(r.session) = {l}
                   /\ _is_admin(r.session)
                   /\ r.redirect = "orange"
            /\ (p # Leagues[l].admin_password /\ p # MASTER_ADMIN_PASSWORD) =>
                   /\ SelectedIn(r.session) = {}
                   /\ r.kind = "error"
                   /\ r.redirect = "home"

\* Both cases of C2 have happened: one visitor was refused and has no league
\* selected, the other was admitted to league "a" with its stored password "p".
C2_Witness ==
    /\ resp.route = "league_login"
    /\ \E s \in Sessions :
           /\ Selected(s) = {<<"a">>}
           /\ <<"a">> \in DOMAIN Leagues
           /\ Leagues[<<"a">>].admin_password = <<"p">>
           /\ _is_admin(session[s]) /\ ~_is_master(session[s])
    /\ \E o \in Sessions : Selected(o) = {} /\ session[o] # EmptyDict

\* C3 as stated: no session holds the league_id of a league that is not in the
\* store (leagues leave the store only through league_delete).
C3_NoSessionOnDeletedLeague ==
    \A s \in Sessions : Selected(s) \subseteq DOMAIN Leagues

\* C3 amended: a successful league_delete clears the requesting session when it
\* pointed at the deleted league, leaves it unchanged otherwise, and leaves every
\* other session unchanged.
C3_RequesterCleared ==
    [][(Served("league_delete") /\ resp'.kind = "success") =>
          \E l \in (DOMAIN Leagues) \ (DOMAIN Leagues') :
              /\ session'[resp'.sid] =
                     IF Selected(resp'.sid) = {l} THEN EmptyDict
                     ELSE session[resp'.sid]
              /\ \A o \in Sessions \ {resp'.sid} : session'[o] = session[o]]_vars

\* A league was deleted, the requester's session was cleared and the other
\* session still points at the deleted league.
C3_Witness ==
    /\ resp.route = "league_delete"
    /\ resp.kind = "success"
    /\ session[resp.sid] = EmptyDict
    /\ \E o \in Sessions \ {resp.sid} :
           Selected(o) # {} /\ ~(Selected(o) \subseteq DOMAIN Leagues)

\* C4: league_delete removes the league exactly when it exists and the password
\* is its admin password or the master password, whatever the session holds;
\* otherwise it fails, saves nothing and leaves the session as it was.
C4_DeleteNeedsPassword ==
    \A s \in Sessions, l \in LeagueIds, p \in LoginPasswords :
        LET r == league_delete(_load_data, session[s], l, p)
        IN  IF /\ l \in DOMAIN Leagues
               /\ (p = Leagues[l].admin_password \/ p = MASTER_ADMIN_PASSWORD)
            THEN /\ r.kind = "success"
                 /\ r.saved
                 /\ r.data = [store EXCEPT !["leagues"] = DictPop(@, l)]
            ELSE /\ r.kind = "error"
                 /\ ~r.saved
                 /\ r.data = store
                 /\ r.session = session[s]

\* A league was deleted by a visitor who holds no admin flag: the requester is
\* a viewer of the league that remains.
C4_Witness ==
    /\ resp.route = "league_delete"
    /\ resp.kind = "success"
    /\ Selected(resp.sid) # {}
    /\ ~_is_admin(session[resp.sid])

\* C6: league_create on a name whose derived league_id is already in the store
\* fails, saves nothing (leagues and rate-limit table stay) and leaves the
\* session; a successful creation adds one league under a new id, holding the
\* stripped name and password submitted, and keeps every stored league.
C6_CreateNeverOverwrites ==
    \A s \in Sessions, n \in LeagueNames, p \in NewPasswords,
       m \in MasterInputs, ip \in ClientIPs :
        LET r == league_create(_load_data, session[s], n, p, m, ip, now)
            id == _slugify(Strip(n))
        IN  /\ id \in DOMAIN Leagues =>
                   /\ r.kind = "error"
                   /\ ~r.saved
                   /\ r.session = session[s]
            /\ r.saved =>
                   /\ id \notin DOMAIN Leagues
                   /\ r.data["leagues"] =
                          DictSet(Leagues, id, NewLeague(Strip(n), Strip(p)))

\* The duplicate check refused a creation that had passed the rate limit, for the
\* league stored under "a" with the name "A".
C6_Witness ==
    /\ resp.route = "league_create"
    /\ resp.flash = "League already exists. Choose a different name."
    /\ <<"a">> \in DOMAIN Leagues
    /\ Leagues[<<"a">>].name = <<"A">>

-----------------------------------------------------------------------------
(* Properties of the creation throttle *)

\* The last successful creation without master password from the address was
\* less than RateWindow seconds ago.
CreatedRecently(ip) ==
    /\ ip \in DOMAIN created
    /\ now - created[ip][Len(created[ip])] < RateWindow

\* C5: a creation without master password, with a name and an admin password
\* that are not blank, fails with the rate-limit error and saves nothing when
\* the same address created a league without master password less than 3600
\* seconds earlier; when 3600 seconds or more have passed (or the address never
\* created one) and the name is fresh, it succeeds and is recorded.
C5_OnePerHour ==
    \A n \in RateNames, p \in RatePasswords, m \in RateMasters, ip \in ClientIPs :
        (Strip(m) = <<>> /\ Strip(n) # <<>> /\ Strip(p) # <<>>) =>
            LET r == league_create(_load_data, session[1], n, p, m, ip, now)
            IN  /\ CreatedRecently(ip) =>
                       /\ r.kind = "error"
                       /\ r.flash = "League creation limited to 1 per hour. Try again later."
                       /\ ~r.saved
                /\ (~CreatedRecently(ip) /\ _slugify(Strip(n)) \notin DOMAIN Leagues) =>
                       /\ r.kind = "success"
                       /\ r.saved
                       /\ DOMAIN r.data["leagues"] =
                              (DOMAIN Leagues) \cup {_slugify(Strip(n))}
                       /\ r.data["rate_limits"][ip] = now

\* An address created a league, created another exactly one window later, and
\* has then been refused a third.
C5_Witness ==
    /\ resp.route = "league_create"
    /\ resp.flash = "League creation limited to 1 per hour. Try again later."
    /\ \E ip \in ClientIPs :
           /\ ip \in DOMAIN created
           /\ Len(created[ip]) = 2
           /\ created[ip][2] - created[ip][1] = RateWindow
           /\ now >= created[ip][2]

-----------------------------------------------------------------------------
(* Properties of the leaderboard mutations *)

MutationRoutes ==
    {"orange_add", "orange_edit", "orange_adjust", "orange_delete",
     "purple_add", "purple_edit", "purple_adjust", "purple_delete"}

\* What each mutation handler would answer to the session, over all inputs.
MutationResults(sess) ==
    {orange_add(_load_data, sess, n, v) : n \in PlayerNames, v \in AddValues}
    \cup {purple_add(_load_data, sess, n, v) : n \in PlayerNames, v \in AddValues}
    \cup {orange_edit(_load_data, sess, n, d) : n \in PlayerNames, d \in Deltas}
    \cup {orange_adjust(_load_data, sess, n, d) : n \in PlayerNames, d \in Deltas}
    \cup {purple_edit(_load_data, sess, n, d) : n \in PlayerNames, d \in Deltas}
    \cup {purple_adjust(_load_data, sess, n, d) : n \in PlayerNames, d \in Deltas}
    \cup {orange_delete(_load_data, sess, n, now) : n \in PlayerNames}
    \cup {purple_delete(_load_data, sess, n, now) : n \in PlayerNames}

Refused(r, sess) ==
    /\ r.kind = "error"
    /\ r.flash = "Admin access required for this action."
    /\ ~r.saved
    /\ r.session = sess

Board(league) == <<league.orange, league.purple, league.delete_logs>>

\* C1: a mutation request from a session whose is_admin is not true is refused
\* with the authorization error and saves nothing; and the leaderboards and the
\* delete log of a stored league change only in a mutation request whose session
\* has is_admin true and has that league selected.
C1_AdminOnly ==
    /\ [](\A s \in Sessions :
             ~_is_admin(session[s]) =>
                 \A r \in MutationResults(session[s]) : Refused(r, session[s]))
    /\ [][\A l \in (DOMAIN Leagues) \cap (DOMAIN Leagues') :
             Board(Leagues'[l]) # Board(Leagues[l]) =>
                 /\ resp'.route \in MutationRoutes
                 /\ _is_admin(session[resp'.sid])
                 /\ Selected(resp'.sid) = {l}]_vars

\* A viewer of the league asked to delete a purple player that exists and was
\* refused.
C1_Witness ==
    /\ resp.route = "purple_delete"
    /\ resp.flash = "Admin access required for this action."
    /\ Selected(resp.sid) \subseteq DOMAIN Leagues
    /\ \E l \in Selected(resp.sid) : StatsHas(Leagues[l].purple, <<"x">>)
    /\ "is_admin" \in DOMAIN session[resp.sid]
    /\ ~_is_admin(session[resp.sid])

\* The integers the submitted strings stand for.
Meant(v) ==
    CASE v = <<"1">> -> 1
      [] v = <<"-", "1">> -> 0 - 1
      [] v = <<"+", "1">> -> 1
      [] v = <<" ", "-", "2">> -> 0 - 2

IsNumber(v) == v \in {<<"1">>, <<"-", "1">>, <<"+", "1">>, <<" ", "-", "2">>}

\* The session is an admin's and its league is in the store.
AdminOn(s) == _is_admin(session[s]) /\ Selected(s) # {} /\ Selected(s) \subseteq DOMAIN Leagues

TheLeague(s) == Leagues[session[s]["league_id"]]

\* stats with d added to the value of name and nothing else changed
Bumped(stats, name, d) ==
    [i \in DOMAIN stats |->
        IF stats[i].name = name
        THEN [name |-> name, value |-> stats[i].value + d]
        ELSE stats[i]]

\* C7: for an admin session, edit and adjust of an existing player with an
\* integer delta d save a store in which that player's value is old + d (below
\* zero included) and nothing else differs; edit and adjust answer alike on
\* every input.
C7_EditAddsDelta ==
    \A s \in Sessions, n \in PlayerNames, d \in Deltas :
        LET oe == orange_edit(_load_data, session[s], n, d)
            oa == orange_adjust(_load_data, session[s], n, d)
            pe == purple_edit(_load_data, session[s], n, d)
            pa == purple_adjust(_load_data, session[s], n, d)
            id == session[s]["league_id"]
        IN  /\ oe = oa
            /\ pe = pa
            /\ (AdminOn(s) /\ IsNumber(d) /\ StatsHas(TheLeague(s).orange, Strip(n))) =>
                   /\ oe.saved
                   /\ oe.data = [store EXCEPT !["leagues"][id].orange =
                                     Bumped(@, Strip(n), Meant(d))]
            /\ (AdminOn(s) /\ IsNumber(d) /\ StatsHas(TheLeague(s).purple, Strip(n))) =>
                   /\ pe.saved
                   /\ pe.data = [store EXCEPT !["leagues"][id].purple =
                                     Bumped(@, Strip(n), Meant(d))]

\* An adjust took player x below zero while player y kept its value.
C7_Witness ==
    /\ resp.route = "orange_adjust"
    /\ resp.kind = "success"
    /\ AdminOn(resp.sid)
    /\ StatsHas(TheLeague(resp.sid).orange, <<"x">>)
    /\ StatsGet(TheLeague(resp.sid).orange, <<"x">>) < 0
    /\ StatsHas(TheLeague(resp.sid).orange, <<"y">>)

\* C8: add on a name already present in the category fails and saves nothing,
\* whatever value is submitted.
C8_AddExistingFails ==
    \A s \in Sessions, n \in PlayerNames, v \in AddValues \cup Deltas :
        (Selected(s) # {} /\ Selected(s) \subseteq DOMAIN Leagues) =>
            LET oa == orange_add(_load_data, session[s], n, v)
                pa == purple_add(_load_data, session[s], n, v)
            IN  /\ StatsHas(TheLeague(s).orange, Strip(n)) =>
                       oa.kind = "error" /\ ~oa.saved /\ oa.data = store
                /\ StatsHas(TheLeague(s).purple, Strip(n)) =>
                       pa.kind = "error" /\ ~pa.saved /\ pa.data = store

\* An add on the existing player x was refused by the duplicate check.
C8_Witness ==
    /\ resp.route = "orange_add"
    /\ resp.flash = "Player already exists. Use edit to adjust runs."
    /\ AdminOn(resp.sid)
    /\ StatsHas(TheLeague(resp.sid).orange, <<"x">>)

-----------------------------------------------------------------------------
(* Properties of deletion and the delete log *)

Min(a, b) == IF a <= b THEN a ELSE b

\* logs holds the newest LogCap entries of full, oldest first.
KeptNewest(logs, full) ==
    /\ Len(logs) = Min(Len(full), LogCap)
    /\ \A i \in 1..Len(logs) : logs[i] = full[Len(full) - Len(logs) + i]

\* new is old with the entry of name taken out and nothing else changed.
RemovedExactly(old, new, name) ==
    /\ Len(new) = Len(old) - 1
    /\ \A i \in DOMAIN new :
           new[i] = old[IF i < StatsIndex(old, name) THEN i ELSE i + 1]
    /\ \A i \in DOMAIN new : new[i].name # name

\* The league after a deletion of name from the category: the player is gone,
\* the other category, the name and the password stay, and the log gains one
\* newest entry carrying the value the player held.
AfterDelete(before, after, name, category, stats, stats2, other, other2) ==
    /\ RemovedExactly(stats, stats2, name)
    /\ other2 = other
    /\ after.name = before.name
    /\ after.admin_password = before.admin_password
    /\ after.delete_logs # <<>>
    /\ after.delete_logs[Len(after.delete_logs)] =
           [player |-> name, category |-> category,
            value |-> StatsGet(stats, name), ts |-> FormatTs(now)]
    /\ KeptNewest(after.delete_logs,
                  Append(before.delete_logs,
                         after.delete_logs[Len(after.delete_logs)]))

\* C9: for an admin session, delete of a player present in the category saves a
\* store from which exactly that player is removed and whose delete log has
\* gained exactly one entry, the newest, naming the player and the value held
\* before the deletion; delete of an absent name fails and saves nothing.
C9_DeleteLogsValue ==
    \A s \in Sessions, n \in LogNames :
        AdminOn(s) =>
            LET od == orange_delete(_load_data, session[s], n, now)
                pd == purple_delete(_load_data, session[s], n, now)
                id == session[s]["league_id"]
                L == TheLeague(s)
            IN  /\ IF StatsHas(L.orange, Strip(n))
                   THEN /\ od.kind = "success" /\ od.saved
                        /\ DOMAIN od.data["leagues"] = DOMAIN Leagues
                        /\ AfterDelete(L, od.data["leagues"][id], Strip(n), "Orange Cap",
                                       L.orange, od.data["leagues"][id].orange,
                                       L.purple, od.data["leagues"][id].purple)
                   ELSE od.kind = "error" /\ ~od.saved /\ od.data = store
                /\ IF StatsHas(L.purple, Strip(n))
                   THEN /\ pd.kind = "success" /\ pd.saved
                        /\ DOMAIN pd.data["leagues"] = DOMAIN Leagues
                        /\ AfterDelete(L, pd.data["leagues"][id], Strip(n), "Purple Cap",
                                       L.purple, pd.data["leagues"][id].purple,
                                       L.orange, pd.data["leagues"][id].orange)
                   ELSE pd.kind = "error" /\ ~pd.saved /\ pd.data = store

\* Player x was deleted from the orange leaderboard holding -1: y is still
\* there and the newest log entry names x and -1.
C9_Witness ==
    /\ resp.route = "orange_delete"
    /\ resp.kind = "success"
    /\ AdminOn(resp.sid)
    /\ ~StatsHas(TheLeague(resp.sid).orange, <<"x">>)
    /\ StatsHas(TheLeague(resp.sid).orange, <<"y">>)
    /\ LET logs == TheLeague(resp.sid).delete_logs
       IN  /\ logs # <<>>
           /\ logs[Len(logs)].player = <<"x">>
           /\ logs[Len(logs)].category = "Orange Cap"
           /\ logs[Len(logs)].value = 0 - 1

\* C10: every league's delete log has at most LogCap (67) entries and holds the
\* newest min(n, 67) of the n deletions made in the league, of both categories
\* together, in the order they happened.
C10_LogKeepsNewest ==
    \A l \in DOMAIN Leagues :
        /\ Len(Leagues[l].delete_logs) <= LogCap
        /\ l \in DOMAIN history
        /\ KeptNewest(Leagues[l].delete_logs, history[l])

\* The 68th deletion of the league, a purple one, has evicted the oldest entry.
C10_Witness ==
    /\ resp.route = "purple_delete"
    /\ resp.kind = "success"
    /\ \E l \in DOMAIN Leagues :
           /\ Len(history[l]) = LogCap + 1
           /\ Len(Leagues[l].delete_logs) = LogCap
           /\ Leagues[l].delete_logs[1] = history[l][2]
           /\ Leagues[l].delete_logs[LogCap].category = "Purple Cap"

-----------------------------------------------------------------------------
(* Properties of the leaderboard views *)

\* The session names a league that is in the store.
OnLeague(s) ==
    /\ Selected(s) # {}
    /\ Selected(s) # {<<>>}
    /\ Selected(s) \subseteq DOMAIN Leagues

\* board lists every entry of stats once, by value downwards, entries of equal
\* value in the order of stats.
IsLeaderboardOf(board, stats) ==
    /\ Len(board) = Len(stats)
    /\ \A i \in DOMAIN stats :
           Cardinality({j \in DOMAIN board : board[j] = stats[i]}) = 1
    /\ \A i, j \in DOMAIN board :
           i < j =>
               \/ board[i].value > board[j].value
               \/ /\ board[i].value = board[j].value
                  /\ StatsIndex(stats, board[i].name) < StatsIndex(stats, board[j].name)

\* C11: for every session with a stored league selected, admin or not, the view
\* of a category is a page listing every entry of the mapping once, in
\* non-increasing order of value, entries of equal value in the mapping's
\* insertion order; the view saves nothing, and a view request leaves the store
\* and every session as they were.
C11_ViewSorted ==
    /\ [](\A s \in Sessions :
             OnLeague(s) =>
                 LET o == orange(_load_data, session[s])
                     p == purple(_load_data, session[s])
                 IN  /\ o.kind = "page" /\ p.kind = "page"
                     /\ IsLeaderboardOf(o.leaderboard, TheLeague(s).orange)
                     /\ IsLeaderboardOf(p.leaderboard, TheLeague(s).purple)
                     /\ ~o.saved /\ ~p.saved
                     /\ o.session = session[s] /\ p.session = session[s])
    /\ [][resp'.route \in {"orange", "purple"} =>
             store' = store /\ session' = session]_vars

\* The viewer was shown the orange leaderboard with y ahead of x at equal value:
\* x was deleted and added again after y.
C11_Witness ==
    /\ resp.route = "orange"
    /\ resp.kind = "page"
    /\ resp.sid = 2
    /\ OnLeague(2)
    /\ ~_is_admin(session[2])
    /\ TheLeague(2).orange = <<[name |-> <<"y">>, value |-> 1],
                               [name |-> <<"x">>, value |-> 1]>>
    /\ orange(_load_data, session[2]).leaderboard = TheLeague(2).orange
    /\ \E i \in DOMAIN TheLeague(2).delete_logs :
           TheLeague(2).delete_logs[i].player = <<"x">>

-----------------------------------------------------------------------------
(* Properties of league ids *)

\* C12: every league is stored under the slug of its name, whatever the state
\* the creation ran in; the slug has at most SlugMaxLen (40) characters, is
\* never empty, and is its own slug.
C12_SlugifyIdempotent ==
    \A l \in DOMAIN Leagues :
        /\ l = _slugify(Leagues[l].name)
        /\ Len(l) <= SlugMaxLen
        /\ l # <<>>
        /\ _slugify(l) = l

\* A name of more than 40 characters was cut behind a hyphen that stands for a
\* run of two spaces.
C12_Witness ==
    /\ resp.route = "league_create"
    /\ resp.kind = "success"
    /\ \E l \in DOMAIN Leagues :
           /\ Len(Leagues[l].name) = SlugMaxLen + 1
           /\ Leagues[l].name[SlugMaxLen - 1] = " "
           /\ Leagues[l].name[SlugMaxLen] = " "
           /\ Len(l) = SlugMaxLen
           /\ l[SlugMaxLen - 1] = "-"
           /\ l[SlugMaxLen] = "7"

\* A name of punctuation only is stored under the default id.
C12_WitnessDefault ==
    /\ resp.route = "league_create"
    /\ resp.kind = "success"
    /\ DefaultSlug \in DOMAIN Leagues
    /\ Leagues[DefaultSlug].name = <<"!", "!">>

-----------------------------------------------------------------------------
(* Properties of admin rights across the life of a league *)

\* The session is an admin's session on league l, and l is in the store.
AdminOf(sess, leagues, l) ==
    /\ _is_admin(sess)
    /\ SelectedIn(sess) = {l}
    /\ l \in DOMAIN leagues

\* C13: a session is admin of a stored league only if it obtained the flag for
\* the league now stored under that id: in every step, a session that is admin
\* of stored league l afterwards has just created l, or has just been admitted
\* to l by an admin login, or was admin of l before the step with l already in
\* the store.
C13_AdminOfCurrentLeague ==
    [][\A s \in Sessions : \A l \in DOMAIN Leagues' :
           AdminOf(session'[s], Leagues', l) =>
               \/ /\ resp'.sid = s
                  /\ resp'.route = "league_create"
                  /\ resp'.kind = "success"
               \/ /\ resp'.sid = s
                  /\ resp'.route = "league_login"
                  /\ resp'.flash = "Admin access granted."
               \/ AdminOf(session[s], Leagues, l)]_vars

-----------------------------------------------------------------------------
(* Properties of creation with the master password *)

\* The rate-limit table of a document, if it has one.
RateLimits(data) ==
    IF "rate_limits" \in DOMAIN data THEN {data["rate_limits"]} ELSE {}

RateLimitFlash == "League creation limited to 1 per hour. Try again later."

\* C14: a creation carrying the master password is never answered with the
\* rate-limit error, whatever is recorded for its address; when it succeeds the
\* saved document has the rate-limit table it was loaded with, so a creation
\* without master password from the same address is throttled after it exactly
\* if it was before it, and the session is left with is_admin and is_master
\* true.  In a step that is such a creation the stored table does not change.
C14_MasterBypassesThrottle ==
    /\ [](\A s \in Sessions, n \in RateNames, p \in RatePasswords, ip \in ClientIPs :
             LET r == league_create(_load_data, session[s], n, p,
                                    MASTER_ADMIN_PASSWORD, ip, now)
             IN  /\ r.flash # RateLimitFlash
                 /\ r.saved =>
                        /\ r.kind = "success"
                        /\ RateLimits(r.data) = RateLimits(_load_data)
                        /\ _is_admin(r.session) /\ _is_master(r.session)
                        /\ \A n2 \in RateNames, t \in {now, now + RateWindow - 1} :
                               (league_create(r.data, session[s], n2, <<"p">>, <<>>,
                                              ip, t).flash = RateLimitFlash)
                               = (league_create(_load_data, session[s], n2, <<"p">>,
                                                <<>>, ip, t).flash = RateLimitFlash))
    /\ [][(/\ resp'.route = "league_create"
           /\ resp'.kind = "success"
           /\ _is_master(session'[resp'.sid])) =>
              /\ RateLimits(store') = RateLimits(store)
              /\ created' = created]_vars

\* Both addresses created a league less than an hour ago, and a creation with
\* the master password has just succeeded.
C14_Witness ==
    /\ resp.route = "league_create"
    /\ resp.kind = "success"
    /\ _is_master(session[resp.sid])
    /\ "rate_limits" \in DOMAIN store
    /\ \A ip \in ClientIPs :
           /\ ip \in DOMAIN store["rate_limits"]
           /\ now - store["rate_limits"][ip] < RateWindow

-----------------------------------------------------------------------------
(* Properties of saving *)

\* What the handlers that can change the document would answer to the session,
\* over the inputs of SpecFail.
ChangingResults(sess) ==
    {league_create(_load_data, sess, n, <<"p">>, m, "10.0.0.1", now) :
         n \in FailNames, m \in FailMasters}
    \cup {league_delete(_load_data, sess, l, p) : l \in FailIds, p \in FailPasswords}
    \cup {orange_add(_load_data, sess, n, v) : n \in FailPlayers, v \in FailValues}
    \cup {purple_add(_load_data, sess, n, v) : n \in FailPlayers, v \in FailValues}
    \cup {orange_edit(_load_data, sess, n, d) : n \in FailPlayers, d \in FailDeltas}
    \cup {orange_adjust(_load_data, sess, n, d) : n \in FailPlayers, d \in FailDeltas}
    \cup {purple_edit(_load_data, sess, n, d) : n \in FailPlayers, d \in FailDeltas}
    \cup {purple_adjust(_load_data, sess, n, d) : n \in FailPlayers, d \in FailDeltas}
    \cup {orange_delete(_load_data, sess, n, now) : n \in FailPlayers}
    \cup {purple_delete(_load_data, sess, n, now) : n \in FailPlayers}

\* What the handlers that only read the document would answer.
ReadingResults(sess) ==
    {league_login(_load_data, sess, l, role, p) :
         l \in FailIds, role \in Roles, p \in FailPasswords}
    \cup {logout(_load_data, sess), orange(_load_data, sess), purple(_load_data, sess)}

\* C15: a handler that answers with an error has not saved; a handler saves only
\* when it answers with success, and what it saves is the loaded document with
\* its mutation applied; a handler that can change the document and answers
\* with success has saved; login, logout and the views never save.  In a step
\* that is a failing request the persisted document, rate-limit table included,
\* stays as it was.
C15_FailureSavesNothing ==
    /\ [](\A s \in Sessions :
             /\ \A r \in ChangingResults(session[s]) :
                    /\ r.kind \in {"error", "success"}
                    /\ r.kind = "error" => ~r.saved
                    /\ r.kind = "success" => r.saved /\ r.data # _load_data
             /\ \A r \in ReadingResults(session[s]) :
                    ~r.saved /\ r.data = _load_data)
    /\ [][resp'.kind = "error" => _load_data' = _load_data]_vars

\* A creation without master password was refused as a duplicate after the
\* handler had added a rate-limit table to its copy of the document: the
\* persisted document still has none.
C15_Witness ==
    /\ resp.route = "league_create"
    /\ resp.flash = "League already exists. Choose a different name."
    /\ <<"a">> \in DOMAIN Leagues
    /\ "rate_limits" \notin DOMAIN store
    /\ LET r == league_create(_load_data, session[1], <<"a">>, <<"p">>, <<>>,
                              "10.0.0.1", now)
       IN  /\ "rate_limits" \in DOMAIN r.data
           /\ r.kind = "error"
           /\ ~r.saved

-----------------------------------------------------------------------------
(* What a leaderboard mutation leaves alone *)

OtherCategory(c) == IF c = "orange" THEN "purple" ELSE "orange"

\* new differs from old in the mapping of category c of league l, in that
\* league's delete log if logs is true, and in nothing else.
ChangedOnly(new, old, l, c, logs) ==
    /\ DOMAIN new = DOMAIN old
    /\ \A k \in (DOMAIN old) \ {"leagues"} : new[k] = old[k]
    /\ DOMAIN new["leagues"] = DOMAIN old["leagues"]
    /\ \A o \in (DOMAIN old["leagues"]) \ {l} : new["leagues"][o] = old["leagues"][o]
    /\ new["leagues"][l].name = old["leagues"][l].name
    /\ new["leagues"][l].admin_password = old["leagues"][l].admin_password
    /\ new["leagues"][l][OtherCategory(c)] = old["leagues"][l][OtherCategory(c)]
    /\ new["leagues"][l][c] # old["leagues"][l][c]
    /\ IF logs
       THEN new["leagues"][l].delete_logs # old["leagues"][l].delete_logs
       ELSE new["leagues"][l].delete_logs = old["leagues"][l].delete_logs

\* C16: a stats mutation that saves, issued by a session selected on league l,
\* saves a document that differs from the loaded one only in l's mapping of the
\* handler's category (and in l's delete log for a delete) and returns the
\* session as it was; in a step that is a mutation request no session and no
\* record of creations changes.
C16_MutationFrame ==
    /\ [](\A s \in Sessions : \A n \in FrameNames :
             LET l == session[s]["league_id"]
                 Framed(r, c, logs) ==
                     r.saved => /\ OnLeague(s)
                                /\ r.session = session[s]
                                /\ ChangedOnly(r.data, store, l, c, logs)
             IN  /\ \A v \in FrameValues :
                        /\ Framed(orange_add(_load_data, session[s], n, v), "orange", FALSE)
                        /\ Framed(purple_add(_load_data, session[s], n, v), "purple", FALSE)
                 /\ \A d \in FrameDeltas :
                        /\ Framed(orange_edit(_load_data, session[s], n, d), "orange", FALSE)
                        /\ Framed(orange_adjust(_load_data, session[s], n, d), "orange", FALSE)
                        /\ Framed(purple_edit(_load_data, session[s], n, d), "purple", FALSE)
                        /\ Framed(purple_adjust(_load_data, session[s], n, d), "purple", FALSE)
                 /\ Framed(orange_delete(_load_data, session[s], n, now), "orange", TRUE)
                 /\ Framed(purple_delete(_load_data, session[s], n, now), "purple", TRUE))
    /\ [][resp'.route \in MutationRoutes =>
             session' = session /\ created' = created]_vars

\* Visitor 2 deleted a purple player of league "b" while league "a" holds a
\* player in each category and both addresses are in the rate-limit table.
C16_Witness ==
    /\ resp.route = "purple_delete"
    /\ resp.kind = "success"
    /\ resp.sid = 2
    /\ Selected(2) = {<<"b">>}
    /\ DOMAIN Leagues = {<<"a">>, <<"b">>}
    /\ Leagues[<<"a">>].orange # <<>>
    /\ Leagues[<<"a">>].purple # <<>>
    /\ Leagues[<<"a">>].delete_logs = <<>>
    /\ Leagues[<<"b">>].orange # <<>>
    /\ Len(Leagues[<<"b">>].delete_logs) = 1
    /\ DOMAIN store["rate_limits"] = ClientIPs

-----------------------------------------------------------------------------
(* Properties of overlapping requests *)

\* Both requests saved, q1 first and q2 last, and q2 had loaded before q1 saved
\* (so both loaded before either saved).
SavedOver(q1, q2) ==
    /\ saves = <<q1, q2>>
    /\ inflight[q1].seen = 0
    /\ inflight[q2].seen = 0

\* What the request of q answers when it is served on the document data.
Rerun(q, data) ==
    Handle(inflight[q].route, inflight[q].form, data, inflight[q].sess,
           inflight[q].ip, now)

\* C17: when two requests both load before either saves and both save, both
\* report success, the first saver's copy differed from the document it had
\* loaded, and the persisted document is what the last saver alone makes of the
\* document as it was before the first saver's request: the first saver's
\* update is not in it.
C17_LastSaveWins ==
    \A q1, q2 \in Sessions :
        SavedOver(q1, q2) =>
            /\ inflight[q1].result.kind = "success"
            /\ inflight[q2].result.kind = "success"
            /\ inflight[q1].result.data # inflight[q1].data
            /\ store = Rerun(q2, inflight[q1].data).data
            /\ store = inflight[q2].result.data

\* Player y was added to the orange leaderboard and player x to the purple one
\* by overlapping requests; both reported success and the orange leaderboard
\* has no y.
C17_Witness ==
    \E q1, q2 \in Sessions :
        /\ SavedOver(q1, q2)
        /\ inflight[q1].route = "orange_add"
        /\ inflight[q1].result.kind = "success"
        /\ inflight[q2].route = "purple_add"
        /\ inflight[q2].result.kind = "success"
        /\ StatsHas(Leagues[<<"a">>].purple, <<"x">>)
        /\ ~StatsHas(Leagues[<<"a">>].orange, <<"y">>)

\* League "b" was created with success and is not in the store: a mutation of
\* league "a" that had loaded before saved after it.
C17_WitnessCreationDropped ==
    \E q1, q2 \in Sessions :
        /\ SavedOver(q1, q2)
        /\ inflight[q1].route = "league_create"
        /\ inflight[q1].result.kind = "success"
        /\ inflight[q2].route = "orange_edit"
        /\ inflight[q2].result.kind = "success"
        /\ <<"b">> \notin DOMAIN Leagues
        /\ Selected(q1) = {<<"b">>}

\* League "a" was deleted with success and is in the store again: a mutation
\* of it that had loaded before saved after the deletion.
C17_WitnessDeletionUndone ==
    \E q1, q2 \in Sessions :
        /\ SavedOver(q1, q2)
        /\ inflight[q1].route = "league_delete"
        /\ inflight[q1].result.kind = "success"
        /\ inflight[q2].route = "orange_add"
        /\ inflight[q2].result.kind = "success"
        /\ <<"a">> \in DOMAIN Leagues

\* The request of q is a creation without master password.
NoMasterCreate(q) ==
    /\ inflight[q].route = "league_create"
    /\ Strip(inflight[q].form[1]) # <<>>
    /\ Strip(inflight[q].form[2]) # <<>>
    /\ Strip(inflight[q].form[3]) = <<>>

\* The document records a creation from the address less than an hour ago.
RecentlyCreated(data, ip) ==
    "rate_limits" \in DOMAIN data /\ rate_limited(data, ip, now)

\* C18: of two creations without master password from one address under
\* different league ids, with no creation from the address recorded in the
\* last hour: if both load before either saves, both pass the throttle and
\* report success; if the second loads after the first has saved, the second
\* gets the rate-limit error.
C18_OverlappingCreationsBothPass ==
    \A q1, q2 \in DOMAIN inflight :
        (/\ q1 # q2
         /\ NoMasterCreate(q1) /\ NoMasterCreate(q2)
         /\ inflight[q1].ip = inflight[q2].ip
         /\ _slugify(Strip(inflight[q1].form[1])) # _slugify(Strip(inflight[q2].form[1]))
         /\ _slugify(Strip(inflight[q1].form[1])) \notin DOMAIN inflight[q1].data["leagues"]
         /\ _slugify(Strip(inflight[q2].form[1])) \notin DOMAIN inflight[q2].data["leagues"]
         /\ ~RecentlyCreated(inflight[q1].data, inflight[q1].ip)
         /\ inflight[q1].pc # "loaded" /\ inflight[q2].pc # "loaded") =>
            /\ (inflight[q1].seen = 0 /\ inflight[q2].seen = 0) =>
                   /\ inflight[q1].result.kind = "success"
                   /\ inflight[q2].result.kind = "success"
            /\ (saves # <<>> /\ saves[1] = q1 /\ inflight[q2].seen > 0) =>
                   /\ inflight[q1].result.kind = "success"
                   /\ inflight[q2].result.flash = RateLimitFlash

\* Two creations from one address have both answered with success in the same
\* second, and both are on the record of creations of that address.
C18_Witness ==
    \E q1, q2 \in Sessions :
        /\ SavedOver(q1, q2)
        /\ NoMasterCreate(q1) /\ NoMasterCreate(q2)
        /\ inflight[q1].ip = inflight[q2].ip
        /\ inflight[q1].form[1] # inflight[q2].form[1]
        /\ inflight[q1].result.kind = "success"
        /\ inflight[q2].result.kind = "success"
        /\ Len(created[inflight[q1].ip]) = 2
        /\ created[inflight[q1].ip][2] - created[inflight[q1].ip][1] < RateWindow

====
